---- MODULE Spec2Model ----
(***************************************************************************)
(* Model of app.py: the project lifecycle driven by the save_resource,     *)
(* modify_gui, compile_apk and sign_apk handlers, the GUI modification     *)
(* generator (generate_gui_modifications) and the resource patcher         *)
(* (apply_gui_modifications).                                              *)
(*                                                                         *)
(* Text that the code searches by substring (the change description) is a  *)
(* sequence of one-character strings.  A resource file is a sequence of    *)
(* tokens, each token one literal piece of the file's text: an opening     *)
(* declaration tag, a closing tag, a layout attribute, a run of other      *)
(* text without a newline, or a newline.                                   *)
(***************************************************************************)
EXTENDS Integers, Sequences, FiniteSets, TLC

VARIABLES
    meta,       \* the metadata of the project record, 'status' among its keys
    artifact,   \* the compiled APK on disk: NoFile or its size in bytes
    signedApk,  \* signed.apk on disk: NoFile or the size of the APK it was made from
    now,        \* datetime.now(), a clock that advances with every request
    resp,       \* the last request and the answer it got
    scen,       \* progress of the reference scenario modify_gui, compile, sign
    tree,       \* the decompiled resource tree of the project
    lastMods,   \* the modifications last handed to apply_gui_modifications
    prevTree,   \* the tree before the last direct call of apply_gui_modifications
    runLen,     \* how many direct calls in a row were made with lastMods
    genReq,     \* the arguments of a call of generate_gui_modifications
    codeReq,    \* the arguments of a call of generate_code_from_prompt and
                \* what the text-generation service does with its request
    generated_code,   \* the text generate_code_from_prompt returned
    pc,         \* where each request thread stands in its rewrite of a file
    local,      \* the local variables of each request thread
    current_content,  \* what preview_resource last read from the file
    known       \* the project store holds the project: get_project finds it

vars == <<meta, artifact, signedApk, now, resp, scen, tree,
          lastMods, prevTree, runLen,
          genReq, codeReq, generated_code, pc, local, current_content, known>>

\* the state of the generators and of the request threads
genVars == <<genReq, codeReq, generated_code>>

threadVars == <<pc, local, current_content>>

---------------------------------------------------------------------------
(* Text helpers: Python's str.lower, str.strip, the in operator on strings *)

UpperToLower ==
    [c \in {"B", "C", "D", "G", "K", "L", "R", "S", "T"} |->
        CASE c = "B" -> "b" [] c = "C" -> "c" [] c = "D" -> "d"
          [] c = "G" -> "g" [] c = "K" -> "k" [] c = "L" -> "l"
          [] c = "R" -> "r" [] c = "S" -> "s" [] c = "T" -> "t"]

lower(s) ==
    [i \in 1..Len(s) |-> IF s[i] \in DOMAIN UpperToLower THEN UpperToLower[s[i]] ELSE s[i]]

IsSpace(c) == c \in {" ", "\n", "\t"}

RECURSIVE lstrip(_)
lstrip(s) == IF s # <<>> /\ IsSpace(Head(s)) THEN lstrip(Tail(s)) ELSE s

RECURSIVE rstrip(_)
rstrip(s) ==
    IF s # <<>> /\ IsSpace(s[Len(s)]) THEN rstrip(SubSeq(s, 1, Len(s) - 1)) ELSE s

strip(s) == rstrip(lstrip(s))

\* k in s
IsSubstring(k, s) ==
    \E i \in 1..(Len(s) - Len(k) + 1) : SubSeq(s, i, i + Len(k) - 1) = k

EndsWith(s, suffix) ==
    /\ Len(s) >= Len(suffix)
    /\ SubSeq(s, Len(s) - Len(suffix) + 1, Len(s)) = suffix

---------------------------------------------------------------------------
(* The trigger and modifier words of generate_gui_modifications.           *)

kw_knob         == <<"k","n","o","b">>
kw_control      == <<"c","o","n","t","r","o","l">>
kw_blue         == <<"b","l","u","e">>
kw_green        == <<"g","r","e","e","n">>
kw_red          == <<"r","e","d">>
kw_orange       == <<"o","r","a","n","g","e">>
kw_dpad         == <<"d","p","a","d">>
kw_d_pad        == <<"d","-","p","a","d">>
kw_bigger       == <<"b","i","g","g","e","r">>
kw_larger       == <<"l","a","r","g","e","r">>
kw_smaller      == <<"s","m","a","l","l","e","r">>
kw_glow         == <<"g","l","o","w">>
kw_light        == <<"l","i","g","h","t">>
kw_connection   == <<"c","o","n","n","e","c","t","i","o","n">>
kw_status       == <<"s","t","a","t","u","s">>
kw_connected    == <<"c","o","n","n","e","c","t","e","d">>
kw_disconnected == <<"d","i","s">> \o kw_connected
kw_button       == <<"b","u","t","t","o","n">>
kw_text         == <<"t","e","x","t">>

\* Python dict item assignment d[k] = v on an insertion-ordered dict, the dict
\* being a sequence of <<key, value>> pairs.
DictHas(d, k) == \E i \in 1..Len(d) : d[i][1] = k

DictGet(d, k) == d[CHOOSE i \in 1..Len(d) : d[i][1] = k][2]

DictSet(d, k, v) ==
    IF DictHas(d, k)
    THEN [i \in 1..Len(d) |-> IF d[i][1] = k THEN <<k, v>> ELSE d[i]]
    ELSE Append(d, <<k, v>>)

color_schemes ==
    [s \in {"blue", "green", "red", "purple", "orange", "dark", "light"} |->
        CASE s = "blue"   -> <<<<"primary", "#007bff">>, <<"secondary", "#6c757d">>, <<"accent", "#17a2b8">>>>
          [] s = "green"  -> <<<<"primary", "#28a745">>, <<"secondary", "#6c757d">>, <<"accent", "#20c997">>>>
          [] s = "red"    -> <<<<"primary", "#dc3545">>, <<"secondary", "#6c757d">>, <<"accent", "#fd7e14">>>>
          [] s = "purple" -> <<<<"primary", "#6f42c1">>, <<"secondary", "#6c757d">>, <<"accent", "#e83e8c">>>>
          [] s = "orange" -> <<<<"primary", "#fd7e14">>, <<"secondary", "#6c757d">>, <<"accent", "#ffc107">>>>
          [] s = "dark"   -> <<<<"primary", "#343a40">>, <<"secondary", "#6c757d">>, <<"accent", "#ffffff">>>>
          [] s = "light"  -> <<<<"primary", "#f8f9fa">>, <<"secondary", "#e9ecef">>, <<"accent", "#343a40">>>>]

SetColor(m, k, v)  == [m EXCEPT !.colors = DictSet(m.colors, k, v)]

SetLayout(m, k, v) == [m EXCEPT !.layouts = DictSet(m.layouts, k, v)]

SetString(m, k, v) == [m EXCEPT !.strings = DictSet(m.strings, k, v)]

\* a scheme rule that falls back to the blue scheme for a name it does not know
SchemeRule_Default(m, color_scheme) ==
    IF color_scheme # ""
    THEN [m EXCEPT !.colors =
              IF color_scheme \in DOMAIN color_schemes
              THEN color_schemes[color_scheme] ELSE color_schemes["blue"]]
    ELSE m

\* if color_scheme: ... if color_scheme in color_schemes: ...
SchemeRule(m, color_scheme) ==
    IF color_scheme # "" /\ color_scheme \in DOMAIN color_schemes
    THEN [m EXCEPT !.colors = color_schemes[color_scheme]]
    ELSE m

\* a control rule that tests the colours in the reverse order
ControlRule_Reversed(m, changes_lower) ==
    LET has(k) == IsSubstring(k, changes_lower)
    IN  IF has(kw_knob) \/ has(kw_control)
        THEN IF has(kw_orange) THEN SetColor(m, "control_color", "#fd7e14")
             ELSE IF has(kw_red) THEN SetColor(m, "control_color", "#dc3545")
             ELSE IF has(kw_green) THEN SetColor(m, "control_color", "#28a745")
             ELSE IF has(kw_blue) THEN SetColor(m, "control_color", "#007bff")
             ELSE m
        ELSE m

\* control knob
ControlRule(m, changes_lower) ==
    LET has(k) == IsSubstring(k, changes_lower)
    IN  IF has(kw_knob) \/ has(kw_control)
        THEN IF has(kw_blue) THEN SetColor(m, "control_color", "#007bff")
             ELSE IF has(kw_green) THEN SetColor(m, "control_color", "#28a745")
             ELSE IF has(kw_red) THEN SetColor(m, "control_color", "#dc3545")
             ELSE IF has(kw_orange) THEN SetColor(m, "control_color", "#fd7e14")
             ELSE m
        ELSE m

\* d-pad
DpadRule(m, changes_lower) ==
    LET has(k) == IsSubstring(k, changes_lower)
    IN  IF has(kw_dpad) \/ has(kw_d_pad)
        THEN IF has(kw_bigger) \/ has(kw_larger) THEN SetLayout(m, "dpad_size", "large")
             ELSE IF has(kw_smaller) THEN SetLayout(m, "dpad_size", "small")
             ELSE m
        ELSE m

\* glow / lighting
GlowRule(m, changes_lower) ==
    LET has(k) == IsSubstring(k, changes_lower)
    IN  IF has(kw_glow) \/ has(kw_light)
        THEN IF has(kw_blue) THEN SetColor(m, "glow_color", "#007bff")
             ELSE IF has(kw_green) THEN SetColor(m, "glow_color", "#28a745")
             ELSE IF has(kw_red) THEN SetColor(m, "glow_color", "#dc3545")
             ELSE m
        ELSE m

\* connection status
ConnectionRule(m, changes_lower) ==
    LET has(k) == IsSubstring(k, changes_lower)
    IN  IF has(kw_connection) \/ has(kw_status)
        THEN IF has(kw_connected)
             THEN SetColor(SetString(m, "connection_status", "Connected"),
                           "status_color", "#28a745")
             ELSE IF has(kw_disconnected)
             THEN SetColor(SetString(m, "connection_status", "Disconnected"),
                           "status_color", "#dc3545")
             ELSE m
        ELSE m

\* a button rule that starts the colours afresh with the button colour
ButtonRule_Reset(m, changes_lower) ==
    LET has(k) == IsSubstring(k, changes_lower)
        only(v) == [m EXCEPT !.colors = <<<<"button_color", v>>>>]
    IN  IF has(kw_button)
        THEN IF has(kw_blue) THEN only("#007bff")
             ELSE IF has(kw_green) THEN only("#28a745")
             ELSE IF has(kw_red) THEN only("#dc3545")
             ELSE m
        ELSE m

\* button
ButtonRule(m, changes_lower) ==
    LET has(k) == IsSubstring(k, changes_lower)
    IN  IF has(kw_button)
        THEN IF has(kw_blue) THEN SetColor(m, "button_color", "#007bff")
             ELSE IF has(kw_green) THEN SetColor(m, "button_color", "#28a745")
             ELSE IF has(kw_red) THEN SetColor(m, "button_color", "#dc3545")
             ELSE m
        ELSE m

\* a text rule that takes the two sizes the wrong way round
TextRule_Swapped(m, changes_lower) ==
    LET has(k) == IsSubstring(k, changes_lower)
    IN  IF has(kw_text)
        THEN IF has(kw_bigger) \/ has(kw_larger) THEN SetLayout(m, "text_size", "small")
             ELSE IF has(kw_smaller) THEN SetLayout(m, "text_size", "large")
             ELSE m
        ELSE m

\* text
TextRule(m, changes_lower) ==
    LET has(k) == IsSubstring(k, changes_lower)
    IN  IF has(kw_text)
        THEN IF has(kw_bigger) \/ has(kw_larger) THEN SetLayout(m, "text_size", "large")
             ELSE IF has(kw_smaller) THEN SetLayout(m, "text_size", "small")
             ELSE m
        ELSE m

generate_gui_modifications(changes_description, color_scheme, image_paths) ==
    LET modifications == [colors |-> <<>>, layouts |-> <<>>, strings |-> <<>>,
                          images |-> <<>>, description |-> changes_description]
        changes_lower == lower(changes_description)
    IN  TextRule(
            ButtonRule(
                ConnectionRule(
                    GlowRule(
                        DpadRule(
                            ControlRule(SchemeRule(modifications, color_scheme),
                                        changes_lower),
                            changes_lower),
                        changes_lower),
                    changes_lower),
                changes_lower),
            changes_lower)

---------------------------------------------------------------------------
(* Resource files as token sequences.                                      *)

Tok(k, v) == [k |-> k, v |-> v]

OpenColor(name)  == Tok("ocolor", name)    \* <color name="NAME">
CloseColor       == Tok("ccolor", "")      \* </color>
OpenString(name) == Tok("ostring", name)   \* <string name="NAME">
CloseString      == Tok("cstring", "")     \* </string>
TextSize(v)      == Tok("attr", v)         \* android:textSize="V"
Text(v)          == Tok("text", v)         \* other text without a newline
Newline          == Tok("nl", "")          \* \n

\* the text the colour replacement searches for after the opening tag
HexPatternText == "#[0-9A-Fa-f]{6}"

\* sub in s, on token sequences
Occurs(sub, s) ==
    \E i \in 1..(Len(s) - Len(sub) + 1) : SubSeq(s, i, i + Len(sub) - 1) = sub

\* str.replace(old, new): every non-overlapping occurrence, left to right
RECURSIVE StrReplace(_, _, _)
StrReplace(s, old, new) ==
    IF Len(s) < Len(old) \/ old = <<>> THEN s
    ELSE IF SubSeq(s, 1, Len(old)) = old
         THEN new \o StrReplace(SubSeq(s, Len(old) + 1, Len(s)), old, new)
         ELSE <<Head(s)>> \o StrReplace(Tail(s), old, new)

\* Where a match of  <string name="NAME">.*?</string>  that starts at the head
\* of s ends, 0 when there is none: the lazy .*? stops at the first closing
\* tag, and . matches no newline.
StringMatchEnd(s, string_name) ==
    IF s = <<>> \/ Head(s) # OpenString(string_name) THEN 0
    ELSE LET ends == {j \in 2..Len(s) :
                         /\ s[j] = CloseString
                         /\ \A i \in 2..(j - 1) : s[i] # Newline /\ s[i] # CloseString}
         IN  IF ends = {} THEN 0 ELSE CHOOSE j \in ends : TRUE

\* re.sub(f'{string_pattern}.*?</string>', f'{string_pattern}{value}</string>', s)
RECURSIVE ReSubString(_, _, _)
ReSubString(s, string_name, string_value) ==
    IF s = <<>> THEN <<>>
    ELSE LET e == StringMatchEnd(s, string_name)
         IN  IF e > 0
             THEN <<OpenString(string_name), Text(string_value), CloseString>>
                      \o ReSubString(SubSeq(s, e + 1, Len(s)), string_name, string_value)
             ELSE <<Head(s)>> \o ReSubString(Tail(s), string_name, string_value)

\* a colour pass that declares the colour at the end of the file when the file
\* does not declare it
ReplaceColor_Upsert(content, color_name, color_value) ==
    LET color_pattern == <<OpenColor(color_name)>>
    IN  IF Occurs(color_pattern, content)
        THEN StrReplace(content,
                        color_pattern \o <<Text(HexPatternText), CloseColor>>,
                        color_pattern \o <<Text(color_value), CloseColor>>)
        ELSE content \o color_pattern \o <<Text(color_value), CloseColor>>

\* one pass of the colour loop body
ReplaceColor(content, color_name, color_value) ==
    LET color_pattern == <<OpenColor(color_name)>>
    IN  IF Occurs(color_pattern, content)
        THEN StrReplace(content,
                        color_pattern \o <<Text(HexPatternText), CloseColor>>,
                        color_pattern \o <<Text(color_value), CloseColor>>)
        ELSE content

RECURSIVE UpdateColors(_, _)
UpdateColors(content, colors) ==
    IF colors = <<>> THEN content
    ELSE UpdateColors(ReplaceColor(content, Head(colors)[1], Head(colors)[2]), Tail(colors))

\* one pass of the string loop body
ReplaceString(content, string_name, string_value) ==
    IF Occurs(<<OpenString(string_name)>>, content)
    THEN ReSubString(content, string_name, string_value)
    ELSE content

RECURSIVE UpdateStrings(_, _)
UpdateStrings(content, strings) ==
    IF strings = <<>> THEN content
    ELSE UpdateStrings(ReplaceString(content, Head(strings)[1], Head(strings)[2]),
                       Tail(strings))

\* a larger-text rewrite that raises 16sp first and then moves 14sp up to 16sp
LargeTextSize_Stepwise(content) ==
    StrReplace(StrReplace(content, <<TextSize("16sp")>>, <<TextSize("20sp")>>),
               <<TextSize("14sp")>>, <<TextSize("16sp")>>)

LargeTextSize(content) ==
    StrReplace(StrReplace(content, <<TextSize("14sp")>>, <<TextSize("18sp")>>),
               <<TextSize("16sp")>>, <<TextSize("20sp")>>)

SmallTextSize(content) ==
    StrReplace(StrReplace(content, <<TextSize("16sp")>>, <<TextSize("12sp")>>),
               <<TextSize("18sp")>>, <<TextSize("14sp")>>)

\* the body of the loop over layout files
UpdateLayout(content, layouts) ==
    IF DictHas(layouts, "text_size")
    THEN LET size_value == DictGet(layouts, "text_size")
         IN  IF size_value = "large" THEN LargeTextSize(content)
             ELSE IF size_value = "small" THEN SmallTextSize(content)
             ELSE content
    ELSE content

---------------------------------------------------------------------------
(* The resource tree.  A file is [st, content] with st "ok", "missing" (no *)
(* such file) or "unreadable" (open or read raises).  The layout directory *)
(* is a listing of named files, or absent.  edited is the set of resource  *)
(* paths the direct-edit path has overwritten.                             *)

File(st, content) == [st |-> st, content |-> content]

NoSuchFile == File("missing", <<>>)

dot_xml == <<".", "x", "m", "l">>

\* the loop over layout_files: files are rewritten one after the other and the
\* first unreadable one raises, leaving the earlier ones rewritten
RECURSIVE ApplyLayoutFiles(_, _)
ApplyLayoutFiles(files, layouts) ==
    IF files = <<>> THEN [files |-> <<>>, raised |-> FALSE]
    ELSE LET f == Head(files)
         IN  IF ~EndsWith(f.name, dot_xml)
             THEN LET rest == ApplyLayoutFiles(Tail(files), layouts)
                  IN  [files |-> <<f>> \o rest.files, raised |-> rest.raised]
             ELSE IF f.st # "ok"
             THEN [files |-> files, raised |-> TRUE]
             ELSE LET rest == ApplyLayoutFiles(Tail(files), layouts)
                      g == [f EXCEPT !.content = UpdateLayout(@, layouts)]
                  IN  [files |-> <<g>> \o rest.files, raised |-> rest.raised]

ApplyColorsStage(t, modifications) ==
    IF modifications.colors # <<>> /\ t.colors.st # "missing"
    THEN IF t.colors.st # "ok"
         THEN [tree |-> t, raised |-> TRUE]
         ELSE [tree |-> [t EXCEPT !.colors.content = UpdateColors(@, modifications.colors)],
               raised |-> FALSE]
    ELSE [tree |-> t, raised |-> FALSE]

ApplyStringsStage(t, modifications) ==
    IF modifications.strings # <<>> /\ t.strings.st # "missing"
    THEN IF t.strings.st # "ok"
         THEN [tree |-> t, raised |-> TRUE]
         ELSE [tree |-> [t EXCEPT !.strings.content = UpdateStrings(@, modifications.strings)],
               raised |-> FALSE]
    ELSE [tree |-> t, raised |-> FALSE]

ApplyLayoutsStage(t, modifications) ==
    IF modifications.layouts # <<>> /\ t.layout_dir
    THEN LET r == ApplyLayoutFiles(t.layouts, modifications.layouts)
         IN  [tree |-> [t EXCEPT !.layouts = r.files], raised |-> r.raised]
    ELSE [tree |-> t, raised |-> FALSE]

\* apply_gui_modifications: the tree it leaves and the boolean it returns
apply_gui_modifications(t, modifications) ==
    LET c == ApplyColorsStage(t, modifications)
        s == IF c.raised THEN c ELSE ApplyStringsStage(c.tree, modifications)
        l == IF s.raised THEN s ELSE ApplyLayoutsStage(s.tree, modifications)
    IN  [tree |-> l.tree, ok |-> ~l.raised]

\* the keys the value returned by apply_gui_modifications lists as skipped: it
\* returns a bare True or False, which lists none
skippedKeys(ok) == {}

---------------------------------------------------------------------------
(* Inputs.                                                                 *)

MaxDecls   == 2   \* declarations in a values file
MaxTokens  == 2   \* tokens in a layout file
MaxRun     == 2   \* counted applications in a row of one set of modifications

ph_blue_button ==
    <<"B","l","u","e"," ","b","u","t","t","o","n">>
ph_text_bigger ==
    <<"t","e","x","t"," ","b","i","g","g","e","r">>
ph_text_smaller ==
    <<"s","m","a","l","l","e","r"," ","T","e","x","t">>
ph_status_disconnected ==
    <<"s","t","a","t","u","s"," ","d","i","s","c","o","n","n","e","c","t","e","d">>
ph_dpad_larger ==
    <<"d","-","p","a","d"," ","l","a","r","g","e","r">>
ph_red_glow ==
    <<"r","e","d"," ","g","l","o","w">>
scenario_description ==
    <<"m","a","k","e"," ","t","h","e"," ","b","u","t","t","o","n"," ","b","l","u","e"," ","a","n","d"," ","t","e","x","t"," ","b","i","g","g","e","r">>

\* the concatenations of at most n members of S
RECURSIVE Joined(_, _)
Joined(S, n) ==
    IF n = 0 THEN {<<>>}
    ELSE LET r == Joined(S, n - 1)
         IN  r \cup {a \o b : a \in S, b \in r}

GenDescriptions ==
    {scenario_description, ph_blue_button, ph_text_smaller, ph_status_disconnected,
     ph_status_disconnected \o <<" ">> \o ph_text_bigger,
     ph_dpad_larger \o <<" ">> \o ph_red_glow}

GenSchemes == {"", "blue", "pink"}

\* the sets of modifications the generator produces from these inputs
PatchSets ==
    {generate_gui_modifications(d, s, <<>>) : d \in GenDescriptions, s \in GenSchemes}

NoMods == generate_gui_modifications(<<>>, "", <<>>)

ColorDecl(name, value) == <<OpenColor(name), Text(value), CloseColor>>

StringDecl(name, value) == <<OpenString(name)>> \o value \o <<CloseString>>

FileColorNames == {"button_color", "primary"}

FileColorValues == {"#111111", HexPatternText}

FileStringNames == {"connection_status", "app_name"}

FileStringValues == {<<Text("Old")>>, <<Text("Old"), Newline, Text("more")>>, <<>>}

FileLayoutTokens == {TextSize("14sp"), TextSize("16sp"), TextSize("18sp"), Text("x")}

ColorContents ==
    Joined({ColorDecl(n, v) : n \in FileColorNames, v \in FileColorValues}, MaxDecls)

StringContents ==
    Joined({StringDecl(n, v) : n \in FileStringNames, v \in FileStringValues}, MaxDecls)

LayoutContents == Joined({<<t>> : t \in FileLayoutTokens}, MaxTokens)

main_xml  == <<"m","a","i","n",".","x","m","l">>
menu_xml  == <<"m","e","n","u",".","x","m","l">>
list_xml  == <<"l","i","s","t",".","x","m","l">>
notes_txt == <<"n","o","t","e","s",".","t","x","t">>

LayoutFile(name, st, content) == [name |-> name, st |-> st, content |-> content]

DefaultColors == File("ok", ColorDecl("button_color", "#111111"))

DefaultStrings == File("ok", StringDecl("connection_status", <<Text("Old")>>))

DefaultLayouts == <<LayoutFile(main_xml, "ok", <<TextSize("14sp"), TextSize("16sp")>>)>>

DefaultTree ==
    [colors |-> DefaultColors, strings |-> DefaultStrings,
     layout_dir |-> TRUE, layouts |-> DefaultLayouts, edited |-> {}]

\* trees that differ from the default one in one part: its content, or the
\* file being absent or unreadable
ApplyTrees ==
    {[DefaultTree EXCEPT !.colors = File("ok", c)] : c \in ColorContents}
    \cup {[DefaultTree EXCEPT !.strings = File("ok", c)] : c \in StringContents}
    \cup {[DefaultTree EXCEPT !.layouts = <<LayoutFile(main_xml, "ok", c)>>] :
              c \in LayoutContents}
    \cup {[DefaultTree EXCEPT !.colors = f] :
              f \in {NoSuchFile, File("unreadable", DefaultColors.content)}}
    \cup {[DefaultTree EXCEPT !.strings = f] :
              f \in {NoSuchFile, File("unreadable", DefaultStrings.content)}}
    \cup {[DefaultTree EXCEPT !.layout_dir = FALSE, !.layouts = <<>>],
          [DefaultTree EXCEPT !.layouts =
              <<LayoutFile(notes_txt, "ok", <<TextSize("14sp")>>)>> \o DefaultLayouts],
          [DefaultTree EXCEPT !.layouts =
              DefaultLayouts
                  \o <<LayoutFile(menu_xml, "unreadable", <<TextSize("14sp")>>)>>
                  \o <<LayoutFile(notes_txt, "unreadable", <<>>)>>
                  \o <<LayoutFile(list_xml, "ok", <<TextSize("16sp")>>)>>],
          [colors |-> NoSuchFile, strings |-> NoSuchFile,
           layout_dir |-> FALSE, layouts |-> <<>>, edited |-> {}]}

---------------------------------------------------------------------------
(* The project record and the build collaborator's files.                  *)

MaxClock == 3     \* requests served in one run

MinApkSize == 1024

PreviewLen == 50

NoFile == <<>>

FileOfSize(n) == <<n>>

ArtifactSizes == {500, 1024, 2048}

status == meta["status"]

Has(m, k) == k \in DOMAIN m

\* file_manager.update_project_metadata: the given keys overwrite, the others stay
update_project_metadata(m, partial) == partial @@ m

\* the record decompile_apk creates on a successful upload
NewProject == [name |-> "app", status |-> "decompiled"]

Rep(n) == [i \in 1..n |-> "x"]

\* content[:50] + '...' if len(content) > 50 else content
ContentPreview(content) ==
    IF Len(content) > PreviewLen
    THEN SubSeq(content, 1, PreviewLen) \o <<".", ".", ".">>
    ELSE content

\* a request and its answer: the handler, the collaborator operation it called
\* ("none" when it called none) and what that returned ("raise" when it raised),
\* the category of the flashed or returned message, and the HTTP status
Response(op, called, result, flash, http) ==
    [op |-> op, called |-> called, result |-> result, flash |-> flash, http |-> http]

ReqContents == {Rep(PreviewLen), Rep(PreviewLen + 1)}

ReqPath == "res/values/strings.xml"

ReqDescriptions == {<<" ">>, scenario_description, <<" ">> \o ph_status_disconnected}

ReqSchemes == {"", "blue"}

Results == {"true", "false", "raise"}

\* every file of the tree that exists can be read
Readable(t) ==
    /\ t.colors.st # "unreadable"
    /\ t.strings.st # "unreadable"
    /\ \A i \in 1..Len(t.layouts) : t.layouts[i].st # "unreadable"

LifeTrees ==
    {DefaultTree,
     [DefaultTree EXCEPT !.layouts =
         <<LayoutFile(main_xml, "unreadable", <<TextSize("14sp")>>)>>],
     [colors |-> NoSuchFile, strings |-> NoSuchFile,
      layout_dir |-> FALSE, layouts |-> <<>>, edited |-> {}]}

\* no generator call and no request thread is under way
NoGenerator ==
    /\ genReq = [changes_description |-> <<>>, color_scheme |-> "", called |-> FALSE]
    /\ codeReq = [prompt |-> <<>>, service |-> "none", called |-> FALSE]
    /\ generated_code = <<>>

NoThreads ==
    /\ pc = <<>>
    /\ local = <<>>
    /\ current_content = <<>>

Init ==
    /\ meta = NewProject
    /\ artifact = NoFile
    /\ signedApk = NoFile
    /\ now = 0
    /\ resp = Response("upload", "decompile_apk", "true", "success", 302)
    /\ scen = "s0"
    /\ tree \in LifeTrees
    /\ lastMods = NoMods
    /\ prevTree = tree
    /\ runLen = 0
    /\ NoGenerator
    /\ NoThreads
    /\ known = TRUE

\* the write of save_image_resource, save_string_resource, save_layout_resource
\* to the resource tree
WriteResource(t, resource_path) == [t EXCEPT !.edited = @ \cup {resource_path}]

\* the metadata stamp of save_resource for each kind
EditStamp(resource_type, resource_path, content, time) ==
    LET base == [last_modified |-> time, status |-> "modified",
                 last_resource_edited |-> resource_path,
                 last_edit_type |-> resource_type]
    IN  IF resource_type = "string"
        THEN [last_content_preview |-> ContentPreview(content)] @@ base
        ELSE IF resource_type = "layout"
        THEN [last_content_preview |-> <<"XML Layout Modified">>] @@ base
        ELSE base

WriterOf(resource_type) ==
    CASE resource_type = "image"  -> "save_image_resource"
      [] resource_type = "string" -> "save_string_resource"
      [] resource_type = "layout" -> "save_layout_resource"

\* whether save_resource reaches the writer of the kind
CallsWriter(resource_type, upload) ==
    IF resource_type = "image" THEN upload = "file"
    ELSE resource_type \in {"string", "layout"}

\* a save that stamps the metadata whatever the writer returned
SaveCommit_Unconditional(m, resource_type, resource_path, content, success, time) ==
    IF resource_type \in {"image", "string", "layout"}
    THEN update_project_metadata(m, EditStamp(resource_type, resource_path, content, time))
    ELSE m

\* the metadata save_resource leaves: stamped when the writer returned true
SaveCommit(m, resource_type, resource_path, content, success, time) ==
    IF success
    THEN update_project_metadata(m, EditStamp(resource_type, resource_path, content, time))
    ELSE m

\* save_resource: upload is the image_file part of the request ("absent", "empty"
\* file name, or a "file"), result is what the writer called returns or "raise"
SaveResource(resource_type, resource_path, upload, content, result) ==
    LET calls == CallsWriter(resource_type, upload)
        success == calls /\ result = "true"
        flash == IF ~calls THEN "none" ELSE IF success THEN "success" ELSE "error"
    IN  /\ now < MaxClock
        /\ now' = now + 1
        /\ meta' = SaveCommit(meta, resource_type, resource_path, content, success, now)
        /\ tree' = IF success THEN WriteResource(tree, resource_path) ELSE tree
        /\ resp' = Response("save_resource",
                            IF calls THEN WriterOf(resource_type) ELSE "none",
                            IF calls THEN result ELSE "none", flash, 302)
        /\ scen' = "off"
        /\ UNCHANGED <<artifact, signedApk, lastMods, prevTree, runLen>>
        /\ UNCHANGED <<genVars, threadVars, known>>

\* the requests to save_resource: only kind image looks at the upload, and only
\* kinds string and layout read the posted content
SaveRequest(k, u, c, r) ==
    [resource_type |-> k, resource_path |-> ReqPath, upload |-> u, content |-> c, result |-> r]

SaveRequests ==
    {SaveRequest("image", u, <<>>, "true") : u \in {"absent", "empty"}}
    \cup {SaveRequest("image", "file", <<>>, r) : r \in Results}
    \cup {SaveRequest("string", "absent", c, r) : c \in ReqContents, r \in Results}
    \cup {SaveRequest("layout", "absent", Rep(1), r) : r \in Results}
    \cup {SaveRequest("raw", "absent", Rep(1), "true")}

\* what apk_editor.compile_apk does: raises, returns nothing, or returns a path
\* at which there is no file or a file of some size
CompileOutcome(kind, size) == [kind |-> kind, size |-> size]

CompileOutcomes ==
    {CompileOutcome(k, 0) : k \in {"raise", "none", "nofile"}}
    \cup {CompileOutcome("file", n) : n \in ArtifactSizes}

\* a size check that also turns away an artifact of exactly the minimum size
ValidArtifact_Inclusive(out) == out.kind = "file" /\ ~(out.size <= MinApkSize)

\* the artifact passes the check of compile_apk
ValidArtifact(out) == out.kind = "file" /\ ~(out.size < MinApkSize)

\* a compile that records a failed build in the project's status
CompileCommit_MarksFailed(m, out, time) ==
    IF ValidArtifact(out)
    THEN update_project_metadata(
             m, [compiled |-> TRUE, compiled_at |-> time,
                 apk_size |-> out.size, status |-> "compiled"])
    ELSE update_project_metadata(m, [status |-> "failed"])

\* the metadata compile_apk leaves: stamped when the artifact passed the check
CompileCommit(m, out, time) ==
    IF ValidArtifact(out)
    THEN update_project_metadata(
             m, [compiled |-> TRUE, compiled_at |-> time,
                 apk_size |-> out.size, status |-> "compiled"])
    ELSE m

\* compile_apk
CompileApk(out, sign_option) ==
    LET valid == ValidArtifact(out)
    IN  /\ now < MaxClock
        /\ now' = now + 1
        /\ artifact' = IF out.kind = "file" THEN FileOfSize(out.size)
                       ELSE IF out.kind = "nofile" THEN NoFile
                       ELSE artifact
        /\ meta' = CompileCommit(meta, out, now)
        /\ resp' = Response("compile", "compile_apk", out.kind,
                            IF valid THEN "success" ELSE "error", 302)
        /\ scen' = IF scen = "s1" /\ valid THEN "s2" ELSE "off"
        /\ UNCHANGED <<signedApk, tree, lastMods, prevTree, runLen>>
        /\ UNCHANGED <<genVars, threadVars, known>>

\* apk_editor.get_compiled_apk_path
get_compiled_apk_path == IF artifact = NoFile THEN "none" ELSE "compiled.apk"

\* the metadata sign_apk leaves: stamped when sign_apk_advanced returned true
SignCommit(m, success, time) ==
    IF success
    THEN update_project_metadata(
             m, [signed |-> TRUE, signed_at |-> time, status |-> "signed"])
    ELSE m

\* sign_apk: result is what sign_apk_advanced returns, or "raise"
SignApk(result) ==
    LET compiled_apk_path == get_compiled_apk_path
        missing == compiled_apk_path = "none"
        success == ~missing /\ result = "true"
    IN  /\ now < MaxClock
        /\ now' = now + 1
        /\ signedApk' = IF success THEN artifact ELSE signedApk
        /\ meta' = SignCommit(meta, success, now)
        /\ resp' = IF missing
                   THEN Response("sign", "none", "none", "error", 400)
                   ELSE Response("sign", "sign_apk_advanced", result,
                                 IF success THEN "success" ELSE "error",
                                 IF success THEN 200 ELSE 500)
        /\ scen' = IF scen = "s2" /\ success THEN "s3" ELSE "off"
        /\ UNCHANGED <<artifact, tree, lastMods, prevTree, runLen>>
        /\ UNCHANGED <<genVars, threadVars, known>>

\* the metadata modify_gui leaves: stamped when apply_gui_modifications returned true
GuiCommit(m, gui_changes, color_scheme, success) ==
    IF success
    THEN update_project_metadata(
             m, [last_gui_changes |-> gui_changes, color_scheme |-> color_scheme,
                 status |-> "modified"])
    ELSE m

\* modify_gui
ModifyGui(gui_raw, color_scheme) ==
    LET gui_changes == strip(gui_raw)
        modifications == generate_gui_modifications(gui_changes, color_scheme, <<>>)
        r == apply_gui_modifications(tree, modifications)
    IN  /\ now < MaxClock
        /\ now' = now + 1
        /\ IF gui_changes = <<>>
           THEN /\ resp' = Response("modify_gui", "none", "none", "error", 302)
                /\ scen' = "off"
                /\ UNCHANGED <<meta, tree, lastMods>>
           ELSE /\ tree' = r.tree
                /\ lastMods' = modifications
                /\ meta' = GuiCommit(meta, gui_changes, color_scheme, r.ok)
                /\ resp' = Response("modify_gui", "apply_gui_modifications",
                                    IF r.ok THEN "true" ELSE "false",
                                    IF r.ok THEN "success" ELSE "error", 302)
                /\ scen' = IF /\ status = "decompiled"
                              /\ gui_changes = scenario_description
                              /\ color_scheme = ""
                              /\ Readable(tree)
                           THEN "s1" ELSE "off"
        /\ UNCHANGED <<artifact, signedApk, prevTree, runLen>>
        /\ UNCHANGED <<genVars, threadVars, known>>

Next ==
    \/ \E q \in SaveRequests :
          SaveResource(q.resource_type, q.resource_path, q.upload, q.content, q.result)
    \/ \E out \in CompileOutcomes, sign_option \in {"signed", "unsigned"} :
          CompileApk(out, sign_option)
    \/ \E result \in Results : SignApk(result)
    \/ \E gui_raw \in ReqDescriptions, color_scheme \in ReqSchemes :
          ModifyGui(gui_raw, color_scheme)

Spec == Init /\ [][Next]_vars

---------------------------------------------------------------------------
(* Direct applications of modifications to a tree.                         *)

NextRun(modifications) ==
    IF modifications = lastMods /\ runLen > 0
    THEN (IF runLen < MaxRun THEN runLen + 1 ELSE runLen)
    ELSE 1

InitApply ==
    /\ meta = NewProject
    /\ artifact = NoFile
    /\ signedApk = NoFile
    /\ now = 0
    /\ resp = Response("upload", "decompile_apk", "true", "success", 302)
    /\ scen = "off"
    /\ tree \in ApplyTrees
    /\ lastMods = NoMods
    /\ prevTree = tree
    /\ runLen = 0
    /\ NoGenerator
    /\ NoThreads
    /\ known = TRUE

ApplyStep(modifications) ==
    LET r == apply_gui_modifications(tree, modifications)
    IN  /\ tree' = r.tree
        /\ prevTree' = tree
        /\ lastMods' = modifications
        /\ runLen' = NextRun(modifications)
        /\ resp' = Response("apply", "apply_gui_modifications",
                            IF r.ok THEN "true" ELSE "false",
                            IF r.ok THEN "success" ELSE "error", 0)
        /\ UNCHANGED <<meta, artifact, signedApk, now, scen>>
        /\ UNCHANGED <<genVars, threadVars, known>>

NextApply == \E modifications \in PatchSets : ApplyStep(modifications)

SpecApply == InitApply /\ [][NextApply]_vars

---------------------------------------------------------------------------
(* The generator on its own: one call of generate_gui_modifications with   *)
(* arguments drawn from the descriptions and scheme names below.           *)

MaxPhrases == 2   \* phrases joined into one description or prompt

ph_orange_knob   == <<"o","r","a","n","g","e"," ","k","n","o","b">>
ph_green_control == <<"G","r","e","e","n"," ","c","o","n","t","r","o","l">>
w_red    == <<"r","e","d">>
w_blue   == <<"B","L","U","E">>
w_orange == <<"o","r","a","n","g","e">>
w_button == <<"b","u","t","t","o","n">>
w_hello  == <<"h","e","l","l","o">>

ph_connection_connected ==
    <<"c","o","n","n","e","c","t","i","o","n"," ","C","o","n","n","e","c","t","e","d">>

GenVocabulary ==
    {ph_blue_button, ph_red_glow, ph_text_bigger, ph_text_smaller, ph_dpad_larger,
     ph_status_disconnected, ph_connection_connected, ph_orange_knob, ph_green_control,
     w_red, w_blue, w_orange, w_button, w_hello}

\* descriptions of at most MaxPhrases phrases, a blank after each
PhraseDescriptions == Joined({p \o <<" ">> : p \in GenVocabulary}, MaxPhrases)

AllSchemes ==
    {"", "blue", "green", "red", "purple", "orange", "dark", "light", "pink"}

\* the project and its tree at rest
IdleProject ==
    /\ meta = NewProject
    /\ artifact = NoFile
    /\ signedApk = NoFile
    /\ now = 0
    /\ resp = Response("upload", "decompile_apk", "true", "success", 302)
    /\ scen = "off"
    /\ lastMods = NoMods
    /\ runLen = 0
    /\ known = TRUE

lifeVars == <<meta, artifact, signedApk, now, resp, scen, tree, prevTree, runLen,
             known>>

InitGen ==
    /\ IdleProject
    /\ tree = DefaultTree
    /\ prevTree = tree
    /\ genReq \in [changes_description : PhraseDescriptions,
                    color_scheme : AllSchemes, called : {FALSE}]
    /\ codeReq = [prompt |-> <<>>, service |-> "none", called |-> FALSE]
    /\ generated_code = <<>>
    /\ NoThreads

\* modifications = generate_gui_modifications(gui_changes, color_scheme, image_paths)
GenerateMods ==
    /\ ~genReq.called
    /\ genReq' = [genReq EXCEPT !.called = TRUE]
    /\ lastMods' = generate_gui_modifications(
                       genReq.changes_description, genReq.color_scheme, <<>>)
    /\ UNCHANGED <<lifeVars, codeReq, generated_code, threadVars>>

NextGen == GenerateMods

SpecGen == InitGen /\ [][NextGen]_vars

---------------------------------------------------------------------------
(* The code generator: generate_code_from_prompt and its local fallback.   *)
(* A generated text is the sequence of the pieces its f-string puts        *)
(* together.                                                               *)

kw_color    == <<"c","o","l","o","r">>
kw_theme    == <<"t","h","e","m","e">>
kw_icon     == <<"i","c","o","n">>
kw_layout   == <<"l","a","y","o","u","t">>
kw_activity == <<"a","c","t","i","v","i","t","y">>
kw_screen   == <<"s","c","r","e","e","n">>

Piece(part, arg) == [part |-> part, arg |-> arg]

\* a fallback that looks for the layout keyword before the button keyword
generate_fallback_code_LayoutFirst(prompt, time) ==
    LET prompt_lower == lower(prompt)
        has(k) == IsSubstring(k, prompt_lower)
        template ==
            IF has(kw_layout) THEN "generate_layout_template"
            ELSE IF has(kw_button) THEN "generate_button_template"
            ELSE IF has(kw_color) \/ has(kw_theme) THEN "generate_color_template"
            ELSE IF has(kw_icon) THEN "generate_icon_template"
            ELSE IF has(kw_activity) \/ has(kw_screen) THEN "generate_activity_template"
            ELSE "generate_generic_template"
    IN  <<Piece("fallback_title", <<>>), Piece("generated_at", <<time>>),
          Piece("original_request", prompt), Piece("notice", <<>>),
          Piece(template, prompt)>>

\* generate_fallback_code: the header with the notice, then one template
generate_fallback_code(prompt, time) ==
    LET prompt_lower == lower(prompt)
        has(k) == IsSubstring(k, prompt_lower)
        template ==
            IF has(kw_button) THEN "generate_button_template"
            ELSE IF has(kw_color) \/ has(kw_theme) THEN "generate_color_template"
            ELSE IF has(kw_icon) THEN "generate_icon_template"
            ELSE IF has(kw_layout) THEN "generate_layout_template"
            ELSE IF has(kw_activity) \/ has(kw_screen) THEN "generate_activity_template"
            ELSE "generate_generic_template"
    IN  <<Piece("fallback_title", <<>>), Piece("generated_at", <<time>>),
          Piece("original_request", prompt), Piece("notice", <<>>),
          Piece(template, prompt)>>

\* what the environment and the text-generation service do with one request:
\* the API key, the outcome of requests.post, the status code and the body
ServiceOutcomes ==
    [api_key : {"dummy", "set"},
     post : {"request_exception", "exception", "response"},
     status_code : {200, 500},
     body : {"not_json", "no_candidates", "empty_candidates", "malformed",
             "empty_text", "text"}]

generated_text == <<"c","o","d","e">>

\* generate_code_from_prompt
generate_code_from_prompt(prompt, service, time) ==
    IF service.api_key = "dummy" THEN generate_fallback_code(prompt, time)
    ELSE IF service.post # "response" THEN generate_fallback_code(prompt, time)
    ELSE IF service.status_code # 200 THEN generate_fallback_code(prompt, time)
    ELSE IF service.body = "not_json" THEN generate_fallback_code(prompt, time)
    ELSE IF service.body \in {"no_candidates", "empty_candidates"}
    THEN generate_fallback_code(prompt, time)
    ELSE IF service.body = "malformed" THEN generate_fallback_code(prompt, time)
    ELSE <<Piece("ai_title", <<>>), Piece("generated_at", <<time>>),
           Piece("prompt", prompt),
           Piece("generated_content",
                 IF service.body = "empty_text" THEN <<>> ELSE generated_text)>>

w_Button   == <<"B","u","t","t","o","n">>

PromptVocabulary ==
    {w_Button, kw_color, kw_theme, kw_icon, kw_layout, kw_activity, kw_screen, w_hello}

\* prompts of at most MaxPhrases words, a blank after each
Prompts == Joined({p \o <<" ">> : p \in PromptVocabulary}, MaxPhrases)

InitCode ==
    /\ IdleProject
    /\ tree = DefaultTree
    /\ prevTree = tree
    /\ genReq = [changes_description |-> <<>>, color_scheme |-> "", called |-> FALSE]
    /\ codeReq \in [prompt : Prompts, service : ServiceOutcomes, called : {FALSE}]
    /\ generated_code = <<>>
    /\ NoThreads

\* generated_code = generate_code_from_prompt(function_prompt, image_paths)
GenerateCode ==
    /\ ~codeReq.called
    /\ codeReq' = [codeReq EXCEPT !.called = TRUE]
    /\ generated_code' = generate_code_from_prompt(codeReq.prompt, codeReq.service, now)
    /\ UNCHANGED <<lifeVars, lastMods, genReq, threadVars>>

NextCode == GenerateCode

SpecCode == InitCode /\ [][NextCode]_vars

---------------------------------------------------------------------------
(* Two modify_gui requests served by two threads of the server at once,    *)
(* each rewriting the layout file main.xml with its own text size, and a   *)
(* preview request that reads the file.  A thread reads the file, opens it *)
(* for writing, which empties it, and writes its content.                  *)

Threads == {1, 2}

TextSizes == {"large", "small"}

\* the content of main.xml on disk
Disk(t) == t.layouts[1].content

SetDisk(t, content) == [t EXCEPT !.layouts[1].content = content]

\* f.write(content) on a file opened at its start: the content replaces the
\* start of what the file holds
WriteAtStart(old, content) ==
    IF Len(old) > Len(content)
    THEN content \o SubSeq(old, Len(content) + 1, Len(old))
    ELSE content

InitThreads ==
    /\ IdleProject
    /\ \E c \in LayoutContents \ {<<>>} :
           tree = [DefaultTree EXCEPT !.layouts = <<LayoutFile(main_xml, "ok", c)>>]
    /\ prevTree = tree
    /\ NoGenerator
    /\ pc = [t \in Threads |-> "start"]
    /\ local \in [Threads -> [size_value : TextSizes, content : {<<>>}]]
    /\ current_content = <<>>

\* with open(layout_path, 'r') as f: content = f.read(), then the replacements
ReadFile(t) ==
    /\ pc[t] = "start"
    /\ pc' = [pc EXCEPT ![t] = "read"]
    /\ local' = [local EXCEPT ![t].content =
                     UpdateLayout(Disk(tree), <<<<"text_size", local[t].size_value>>>>)]
    /\ UNCHANGED <<lifeVars, lastMods, genVars, current_content>>

\* with open(layout_path, 'w') as f: the file is emptied
OpenForWrite(t) ==
    /\ pc[t] = "read"
    /\ pc' = [pc EXCEPT ![t] = "opened"]
    /\ tree' = SetDisk(tree, <<>>)
    /\ UNCHANGED <<meta, artifact, signedApk, now, resp, scen, prevTree, runLen,
                   lastMods, genVars, local, current_content, known>>

\* f.write(content)
WriteFile(t) ==
    /\ pc[t] = "opened"
    /\ pc' = [pc EXCEPT ![t] = "done"]
    /\ tree' = SetDisk(tree, WriteAtStart(Disk(tree), local[t].content))
    /\ UNCHANGED <<meta, artifact, signedApk, now, resp, scen, prevTree, runLen,
                   lastMods, genVars, local, current_content, known>>

\* f.write(content) raises: except Exception ... return False
WriteFails(t) ==
    /\ pc[t] = "opened"
    /\ pc' = [pc EXCEPT ![t] = "failed"]
    /\ UNCHANGED <<lifeVars, lastMods, genVars, local, current_content>>

\* current_content = apk_editor.get_resource_content(...) in preview_resource
Preview ==
    /\ current_content' = <<Disk(tree)>>
    /\ UNCHANGED <<lifeVars, lastMods, genVars, pc, local>>

NextThreads ==
    \/ \E t \in Threads : ReadFile(t)
    \/ \E t \in Threads : OpenForWrite(t)
    \/ \E t \in Threads : WriteFile(t)
    \/ \E t \in Threads : WriteFails(t)
    \/ Preview

SpecThreads == InitThreads /\ [][NextThreads]_vars

---------------------------------------------------------------------------
(* The handlers with the lookup of the project in the project store, and   *)
(* delete_project.  After a delete the store no longer holds the project;  *)
(* meta keeps the record the store held last.                              *)

\* project = file_manager.get_project(project_id); if not project: ...
NotFound(op, http) ==
    /\ now < MaxClock
    /\ now' = now + 1
    /\ resp' = Response(op, "none", "not_found", "error", http)
    /\ UNCHANGED <<meta, artifact, signedApk, scen, tree, lastMods, prevTree, runLen>>
    /\ UNCHANGED <<genVars, threadVars, known>>

\* the tree of a deleted project: nothing is left of it
DeletedTree ==
    [colors |-> NoSuchFile, strings |-> NoSuchFile,
     layout_dir |-> FALSE, layouts |-> <<>>, edited |-> {}]

\* delete_project: the store removes the record, the tree and the artifacts
\* when delete_project returns true
DeleteProject(result) ==
    LET success == known /\ result = "true"
    IN  /\ now < MaxClock
        /\ now' = now + 1
        /\ known' = IF success THEN FALSE ELSE known
        /\ tree' = IF success THEN DeletedTree ELSE tree
        /\ artifact' = IF success THEN NoFile ELSE artifact
        /\ signedApk' = IF success THEN NoFile ELSE signedApk
        /\ resp' = Response("delete", "delete_project", result,
                            IF result = "true" THEN "success" ELSE "error", 302)
        /\ scen' = "off"
        /\ UNCHANGED <<meta, lastMods, prevTree, runLen, genVars, threadVars>>

CompileRequest(out, sign_option) ==
    IF known THEN CompileApk(out, sign_option) ELSE NotFound("compile", 302)

SignRequest(result) ==
    IF known THEN SignApk(result) ELSE NotFound("sign", 404)

ModifyGuiRequest(gui_raw, color_scheme) ==
    IF known THEN ModifyGui(gui_raw, color_scheme) ELSE NotFound("modify_gui", 302)

InitStore == Init /\ tree = DefaultTree

NextStore ==
    \/ \E result \in Results : DeleteProject(result)
    \/ \E q \in SaveRequests :
          SaveResource(q.resource_type, q.resource_path, q.upload, q.content, q.result)
    \/ \E out \in CompileOutcomes, sign_option \in {"signed", "unsigned"} :
          CompileRequest(out, sign_option)
    \/ \E result \in Results : SignRequest(result)
    \/ \E gui_raw \in ReqDescriptions, color_scheme \in ReqSchemes :
          ModifyGuiRequest(gui_raw, color_scheme)

SpecStore == InitStore /\ [][NextStore]_vars

---------------------------------------------------------------------------
(* Properties of the lifecycle, checked under Spec.                        *)

SignOptions == {"signed", "unsigned"}

\* C1: a sign request made while the recorded state is not Compiled returns an
\* input error (HTTP 400) and leaves the state and the metadata unchanged.
C1_SignRejectedUnlessCompiled ==
    [][\A result \in Results :
           SignApk(result) /\ status # "compiled"
               => resp'.http = 400 /\ meta' = meta]_vars

\* C2: sign only ever signs an artifact that passed compile validation: a signed
\* APK is made from an artifact of at least 1024 bytes, and a project is Signed
\* only after some compile run passed validation (stamped the compiled flag).
C2_SignsOnlyValidatedArtifact ==
    /\ signedApk # NoFile => signedApk[1] >= 1024
    /\ status = "signed" => Has(meta, "compiled")

\* C3: a compile request sets the state to Compiled, with the compiled flag and
\* the size stamped, if and only if the collaborator returned a path to an
\* existing artifact of at least 1024 bytes; otherwise it reports a failure and
\* leaves state and metadata at their prior values.
C3_CompileCommitsIffValid ==
    [][\A out \in CompileOutcomes, sign_option \in SignOptions :
           CompileApk(out, sign_option)
               => IF out.kind = "file" /\ out.size >= 1024
                  THEN /\ status' = "compiled"
                       /\ meta'["compiled"] = TRUE
                       /\ meta'["apk_size"] = out.size
                       /\ meta'["compiled_at"] = now
                       /\ resp'.flash = "success"
                  ELSE /\ meta' = meta
                       /\ resp'.flash = "error"]_vars

\* C3 witness: a compile whose artifact is exactly at the threshold was committed.
C3_Witness ==
    /\ resp.op = "compile" /\ resp.flash = "success"
    /\ artifact = FileOfSize(1024)
    /\ status = "compiled" /\ meta["apk_size"] = 1024

\* C4: when the collaborator's compile or sign call returns failure or raises,
\* the request reports an error and the state and every metadata key are what
\* they were before the call.
C4_FailureLeavesMetadata ==
    [][/\ \A out \in CompileOutcomes, sign_option \in SignOptions :
              CompileApk(out, sign_option) /\ out.kind \in {"raise", "none"}
                  => meta' = meta /\ resp'.flash = "error"
       /\ \A result \in {"false", "raise"} :
              SignApk(result) => meta' = meta /\ resp'.flash = "error"]_vars

\* C4 witness: a compile call that failed on a project already Signed.
C4_Witness ==
    /\ resp.op = "compile" /\ resp.result \in {"raise", "none"}
    /\ status = "signed"

\* C5: from Decompiled, modify_gui("make the button blue and text bigger", no
\* scheme) on a readable tree, then a compile with an artifact at or above the
\* threshold, then a sign the collaborator performs, pass through Modified,
\* Compiled, Signed in that order, and the modifications hold button_color
\* #007bff and text_size large.
C5_Scenario ==
    /\ scen = "s1" =>
           /\ status = "modified"
           /\ DictHas(lastMods.colors, "button_color")
           /\ DictGet(lastMods.colors, "button_color") = "#007bff"
           /\ DictHas(lastMods.layouts, "text_size")
           /\ DictGet(lastMods.layouts, "text_size") = "large"
    /\ scen = "s2" => status = "compiled"
    /\ scen = "s3" => status = "signed"

\* C5 witness: the three requests of the scenario were served.
C5_Witness == scen = "s3" /\ status = "signed"

\* C6: every change of the recorded state follows an edge of the lifecycle
\* diagram: it becomes Compiled only from Decompiled or Modified, and Signed
\* only from Compiled.
C6_LifecycleEdges ==
    [][/\ (status' = "compiled" /\ status # "compiled")
              => status \in {"decompiled", "modified"}
       /\ (status' = "signed" /\ status # "signed")
              => status = "compiled"]_vars

\* C7: a save_resource request of kind image, string or layout calls the writer
\* of its kind and, exactly when that write succeeds, stamps the metadata
\* (timestamp, edited path, edit type) and sets the state to Modified; when the
\* write fails, an image request carries no file, or the kind is none of the
\* three, state and metadata are unchanged.
C7_SaveStampsIffWritten ==
    [][\A q \in SaveRequests :
           SaveResource(q.resource_type, q.resource_path, q.upload, q.content, q.result)
               => LET k == q.resource_type
                      reaches == \/ k = "image" /\ q.upload = "file"
                                 \/ k \in {"string", "layout"}
                      writer == IF k = "image" THEN "save_image_resource"
                                ELSE IF k = "string" THEN "save_string_resource"
                                ELSE "save_layout_resource"
                  IN  /\ resp'.called = IF reaches THEN writer ELSE "none"
                      /\ IF reaches /\ q.result = "true"
                         THEN /\ status' = "modified"
                              /\ meta'["last_modified"] = now
                              /\ meta'["last_resource_edited"] = q.resource_path
                              /\ meta'["last_edit_type"] = k
                         ELSE meta' = meta]_vars

\* C7 witness: an image was saved on a project that had been compiled.
C7_Witness ==
    /\ resp.op = "save_resource" /\ resp.called = "save_image_resource"
    /\ resp.result = "true"
    /\ status = "modified" /\ Has(meta, "compiled")
    /\ meta["last_edit_type"] = "image"

---------------------------------------------------------------------------
(* Properties of apply_gui_modifications, checked under SpecApply.         *)

Min(S) == CHOOSE x \in S : \A y \in S : x <= y

\* the declarations of a values file, in order: the name of each opening tag of
\* kind open and the tokens up to the first closing tag after it
RECURSIVE Declarations(_, _, _)
Declarations(content, open, close) ==
    IF content = <<>> THEN <<>>
    ELSE IF Head(content).k # open THEN Declarations(Tail(content), open, close)
    ELSE LET ends == {j \in 2..Len(content) : content[j].k = close}
         IN  IF ends = {} THEN <<>>
             ELSE <<[name |-> Head(content).v,
                     value |-> SubSeq(content, 2, Min(ends) - 1)]>>
                  \o Declarations(SubSeq(content, Min(ends) + 1, Len(content)),
                                  open, close)

ColorDeclarations(file) == Declarations(file.content, "ocolor", "ccolor")

StringDeclarations(file) == Declarations(file.content, "ostring", "cstring")

\* a six-digit hex colour: the values of colour declarations are such colours
\* or the text of the search pattern
IsHexColor(value) ==
    Len(value) = 1 /\ value[1].k = "text" /\ value[1].v # HexPatternText

\* the last call was a direct one that returned True
Applied == runLen >= 1 /\ resp.op = "apply" /\ resp.result = "true"

\* C8: applying the same modifications twice in a row leaves the tree after the
\* second application identical to the tree after the first (colors file,
\* strings file and every layout file).
C8_ApplyIdempotent == runLen >= 2 => tree = prevTree

\* C8 witness: modifications that rewrote the strings file and a layout file
\* were applied a second time.
C8_Witness ==
    /\ runLen >= 2
    /\ lastMods.strings # <<>> /\ lastMods.layouts # <<>>
    /\ Occurs(<<Text("Connected")>>, tree.strings.content)
    /\ \E i \in 1..Len(tree.layouts) :
           Occurs(<<TextSize("20sp")>>, tree.layouts[i].content)

\* C9: after apply with a Color instruction whose name is declared in the colors
\* file with a six-digit hex value, that declaration's value equals the
\* instruction's new value, and the declaration's name and every other
\* declaration in the file are unchanged.
C9_ColorValueReplaced ==
    (Applied /\ lastMods.colors # <<>> /\ prevTree.colors.st = "ok") =>
        LET before == ColorDeclarations(prevTree.colors)
            after == ColorDeclarations(tree.colors)
        IN  /\ Len(after) = Len(before)
            /\ \A i \in 1..Len(before) :
                   /\ after[i].name = before[i].name
                   /\ after[i].value =
                          IF /\ DictHas(lastMods.colors, before[i].name)
                             /\ IsHexColor(before[i].value)
                          THEN <<Text(DictGet(lastMods.colors, before[i].name))>>
                          ELSE before[i].value

\* C10: after apply with a String instruction whose name is declared in the
\* strings file, that declaration's value equals the instruction's new value,
\* and the declaration's name and every other string declaration in the file
\* are unchanged.
C10_StringValueReplaced ==
    (Applied /\ lastMods.strings # <<>> /\ prevTree.strings.st = "ok") =>
        LET before == StringDeclarations(prevTree.strings)
            after == StringDeclarations(tree.strings)
        IN  /\ Len(after) = Len(before)
            /\ \A i \in 1..Len(before) :
                   /\ after[i].name = before[i].name
                   /\ after[i].value =
                          IF DictHas(lastMods.strings, before[i].name)
                          THEN <<Text(DictGet(lastMods.strings, before[i].name))>>
                          ELSE before[i].value

\* the declared names of a values file, in order
Names(decls) == [i \in 1..Len(decls) |-> decls[i].name]

\* no instruction of the dict names a declaration of the file
NoneDeclared(dict, file, open) ==
    \A i \in 1..Len(dict) : ~Occurs(<<Tok(open, dict[i][1])>>, file.content)

\* some file the modifications make apply_gui_modifications open cannot be read
SomeUnreadable(t, modifications) ==
    \/ modifications.colors # <<>> /\ t.colors.st = "unreadable"
    \/ modifications.strings # <<>> /\ t.strings.st = "unreadable"
    \/ /\ modifications.layouts # <<>> /\ t.layout_dir
       /\ \E i \in 1..Len(t.layouts) :
              EndsWith(t.layouts[i].name, dot_xml) /\ t.layouts[i].st = "unreadable"

\* C11: a Color or String instruction whose name the values file does not
\* declare is a non-fatal skip: apply fails only when a file cannot be read,
\* a file none of whose declarations is named by an instruction keeps its
\* content, and the declared names of each values file are the same before
\* and after every apply.
C11_UndeclaredNameSkipped ==
    (runLen >= 1 /\ resp.op = "apply") =>
        /\ Names(ColorDeclarations(tree.colors)) = Names(ColorDeclarations(prevTree.colors))
        /\ Names(StringDeclarations(tree.strings)) = Names(StringDeclarations(prevTree.strings))
        /\ NoneDeclared(lastMods.colors, prevTree.colors, "ocolor")
               => tree.colors = prevTree.colors
        /\ NoneDeclared(lastMods.strings, prevTree.strings, "ostring")
               => tree.strings = prevTree.strings
        /\ resp.result = "false" => SomeUnreadable(prevTree, lastMods)

\* C11 witness: an apply with a colour instruction and a string instruction,
\* neither declared in its readable, non-empty values file, returned True.
C11_Witness ==
    /\ Applied
    /\ lastMods.colors # <<>> /\ lastMods.strings # <<>>
    /\ prevTree.colors.st = "ok" /\ ColorDeclarations(prevTree.colors) # <<>>
    /\ prevTree.strings.st = "ok" /\ StringDeclarations(prevTree.strings) # <<>>
    /\ NoneDeclared(lastMods.colors, prevTree.colors, "ocolor")
    /\ NoneDeclared(lastMods.strings, prevTree.strings, "ostring")

\* the code acted on the instruction: its name is declared in the values file
\* that was read, or it is the text size and a layout file was rewritten
Acted(kind, key) ==
    CASE kind = "color" ->
             prevTree.colors.st = "ok" /\ Occurs(<<OpenColor(key)>>, prevTree.colors.content)
      [] kind = "string" ->
             prevTree.strings.st = "ok" /\ Occurs(<<OpenString(key)>>, prevTree.strings.content)
      [] OTHER ->
             /\ key = "text_size" /\ prevTree.layout_dir
             /\ \E i \in 1..Len(prevTree.layouts) : EndsWith(prevTree.layouts[i].name, dot_xml)

Instructions(modifications) ==
    {<<"color", modifications.colors[i][1]>> : i \in 1..Len(modifications.colors)}
    \cup {<<"string", modifications.strings[i][1]>> : i \in 1..Len(modifications.strings)}
    \cup {<<"layout", modifications.layouts[i][1]>> : i \in 1..Len(modifications.layouts)}

\* C12: every instruction of an applied set of modifications is accounted for
\* in the result of apply: the code acted on it, or its key is among the
\* skipped keys the result lists; this covers a colour the file does not
\* declare and the dpad_size instruction.
C12_EveryInstructionAccounted ==
    Applied =>
        \A ins \in Instructions(lastMods) :
            Acted(ins[1], ins[2]) \/ ins[2] \in skippedKeys(resp.result = "true")

---------------------------------------------------------------------------
(* Properties of modify_gui on a damaged tree, checked under Spec.         *)

\* a file the modifications target is missing or cannot be read
TargetMissingOrUnreadable(t, modifications) ==
    \/ modifications.colors # <<>> /\ t.colors.st # "ok"
    \/ modifications.strings # <<>> /\ t.strings.st # "ok"
    \/ /\ modifications.layouts # <<>>
       /\ \/ ~t.layout_dir
          \/ \E i \in 1..Len(t.layouts) :
                 EndsWith(t.layouts[i].name, dot_xml) /\ t.layouts[i].st # "ok"

\* C13: when the resource root is missing, or a values or layout file that
\* the modifications target is missing or unreadable, modify_gui reports an
\* error and neither stamps the metadata nor sets the state to Modified.
C13_DamagedTreeIsFatal ==
    [][\A gui_raw \in ReqDescriptions, color_scheme \in ReqSchemes :
           (/\ ModifyGui(gui_raw, color_scheme)
            /\ strip(gui_raw) # <<>>
            /\ TargetMissingOrUnreadable(
                   tree, generate_gui_modifications(strip(gui_raw), color_scheme, <<>>)))
               => meta' = meta /\ resp'.flash = "error"]_vars

---------------------------------------------------------------------------
(* Properties of generate_gui_modifications, checked under SpecGen.        *)

Max(S) == CHOOSE x \in S : \A y \in S : x >= y

\* the lower-cased description of the call holds the keyword
Says(k) == IsSubstring(k, lower(genReq.changes_description))

Triggers == {"control", "dpad", "glow", "connection", "button", "text"}

TriggerWords(t) ==
    CASE t = "control"    -> {kw_knob, kw_control}
      [] t = "dpad"       -> {kw_dpad, kw_d_pad}
      [] t = "glow"       -> {kw_glow, kw_light}
      [] t = "connection" -> {kw_connection, kw_status}
      [] t = "button"     -> {kw_button}
      [] t = "text"       -> {kw_text}

\* the colours a trigger accepts, in the order its rules are declared
AcceptedColors(t) ==
    LET three == <<[word |-> kw_blue, hex |-> "#007bff"],
                   [word |-> kw_green, hex |-> "#28a745"],
                   [word |-> kw_red, hex |-> "#dc3545"]>>
    IN  IF t = "control" THEN Append(three, [word |-> kw_orange, hex |-> "#fd7e14"])
        ELSE three

ModifierWords(t) ==
    CASE t \in {"control", "glow", "button"} ->
             {AcceptedColors(t)[i].word : i \in 1..Len(AcceptedColors(t))}
      [] t \in {"dpad", "text"} -> {kw_bigger, kw_larger, kw_smaller}
      [] t = "connection" -> {kw_connected, kw_disconnected}

\* the instruction a trigger stands for
KeyOf(t) ==
    CASE t = "control"    -> <<"color", "control_color">>
      [] t = "dpad"       -> <<"layout", "dpad_size">>
      [] t = "glow"       -> <<"color", "glow_color">>
      [] t = "connection" -> <<"string", "connection_status">>
      [] t = "button"     -> <<"color", "button_color">>
      [] t = "text"       -> <<"layout", "text_size">>

Matched(t) == \E k \in TriggerWords(t) : Says(k)

\* the triggers the description holds together with a modifier they accept
Fired == {t \in Triggers : Matched(t) /\ \E k \in ModifierWords(t) : Says(k)}

InstructionCount(modifications) ==
    Len(modifications.colors) + Len(modifications.strings) + Len(modifications.layouts)

\* the documented values of the seven schemes: primary, secondary, accent
SchemeTable ==
    [s \in {"blue", "green", "red", "purple", "orange", "dark", "light"} |->
        CASE s = "blue"   -> <<"#007bff", "#6c757d", "#17a2b8">>
          [] s = "green"  -> <<"#28a745", "#6c757d", "#20c997">>
          [] s = "red"    -> <<"#dc3545", "#6c757d", "#fd7e14">>
          [] s = "purple" -> <<"#6f42c1", "#6c757d", "#e83e8c">>
          [] s = "orange" -> <<"#fd7e14", "#6c757d", "#ffc107">>
          [] s = "dark"   -> <<"#343a40", "#6c757d", "#ffffff">>
          [] s = "light"  -> <<"#f8f9fa", "#e9ecef", "#343a40">>]

\* C16: a description that matches no trigger, compiled with one of the seven
\* scheme names, yields exactly the three colours primary, secondary, accent
\* with the values of the table and no string or layout instruction; any
\* other scheme name yields no colour.
C16_SchemeGivesThreeColors ==
    (genReq.called /\ \A t \in Triggers : ~Matched(t)) =>
        /\ lastMods.strings = <<>>
        /\ lastMods.layouts = <<>>
        /\ lastMods.colors =
               IF genReq.color_scheme \in DOMAIN SchemeTable
               THEN LET v == SchemeTable[genReq.color_scheme]
                    IN  <<<<"primary", v[1]>>, <<"secondary", v[2]>>, <<"accent", v[3]>>>>
               ELSE <<>>

\* C16 witness: the purple scheme was compiled with a description without a
\* trigger.
C16_Witness ==
    /\ genReq.called
    /\ genReq.color_scheme = "purple"
    /\ genReq.changes_description = w_hello \o <<" ">>
    /\ Len(lastMods.colors) = 3

\* C17 as stated: for a description with two or more triggers, each with a
\* modifier it accepts, the modifications hold exactly one instruction per
\* trigger.
C17_OneInstructionPerTrigger ==
    (genReq.called /\ genReq.color_scheme = "" /\ Cardinality(Fired) >= 2) =>
        /\ \A t \in Fired : KeyOf(t) \in Instructions(lastMods)
        /\ InstructionCount(lastMods) = Cardinality(Fired)

\* C17: for a description with two or more triggers, each with a modifier it
\* accepts, the modifications hold the instruction of every trigger and
\* nothing else, no key twice: one instruction per trigger, and for the
\* connection trigger the string connection_status and the colour status_color.
C17_InstructionsOfEveryTrigger ==
    (genReq.called /\ genReq.color_scheme = "" /\ Cardinality(Fired) >= 2) =>
        /\ Instructions(lastMods) =
               {KeyOf(t) : t \in Fired}
               \cup (IF "connection" \in Fired THEN {<<"color", "status_color">>} ELSE {})
        /\ InstructionCount(lastMods) = Cardinality(Instructions(lastMods))

\* C17 witness: the connection trigger and the button trigger in one description.
C17_Witness ==
    /\ genReq.called
    /\ genReq.changes_description =
           ph_status_disconnected \o <<" ">> \o ph_blue_button \o <<" ">>
    /\ Fired = {"connection", "button"}
    /\ DictHas(lastMods.colors, "button_color")
    /\ DictHas(lastMods.strings, "connection_status")

\* the places in the declared order of the colours of t that the description holds
PresentColors(t) ==
    {i \in 1..Len(AcceptedColors(t)) : Says(AcceptedColors(t)[i].word)}

ColorInstructions(t) ==
    {i \in 1..Len(lastMods.colors) : lastMods.colors[i][1] = KeyOf(t)[2]}

\* C20 as stated: a colour-taking trigger with two or more of its colours in
\* the description yields exactly one colour instruction, and the colour
\* declared last among those present wins.
C20_LaterDeclaredColorWins ==
    genReq.called =>
        \A t \in {"control", "glow", "button"} :
            (Matched(t) /\ Cardinality(PresentColors(t)) >= 2) =>
                /\ Cardinality(ColorInstructions(t)) = 1
                /\ DictGet(lastMods.colors, KeyOf(t)[2])
                       = AcceptedColors(t)[Max(PresentColors(t))].hex

\* C20: a colour-taking trigger (control/knob, glow/light, button) with two or
\* more of the colours it accepts in the description yields exactly one
\* colour instruction, and the colour declared first in the fixed order blue,
\* green, red, orange among those present wins, wherever the colour words
\* stand in the description.
C20_FirstDeclaredColorWins ==
    genReq.called =>
        \A t \in {"control", "glow", "button"} :
            (Matched(t) /\ Cardinality(PresentColors(t)) >= 2) =>
                /\ Cardinality(ColorInstructions(t)) = 1
                /\ DictGet(lastMods.colors, KeyOf(t)[2])
                       = AcceptedColors(t)[Min(PresentColors(t))].hex

\* C20 witness: red stands before blue in a description with the button
\* trigger and the button colour is the blue one.
C20_Witness ==
    /\ genReq.called
    /\ genReq.changes_description = w_red \o <<" ">> \o ph_blue_button \o <<" ">>
    /\ DictGet(lastMods.colors, "button_color") = "#007bff"

---------------------------------------------------------------------------
(* Properties of the code generator, checked under SpecCode.               *)

\* the returned text is the output of the local fallback generator
IsFallback(text) ==
    /\ Len(text) >= 4
    /\ text[1].part = "fallback_title"
    /\ text[4].part = "notice"

\* the templates in the order their keywords are looked for
TemplateOrder ==
    <<[words |-> {kw_button}, template |-> "generate_button_template"],
      [words |-> {kw_color, kw_theme}, template |-> "generate_color_template"],
      [words |-> {kw_icon}, template |-> "generate_icon_template"],
      [words |-> {kw_layout}, template |-> "generate_layout_template"],
      [words |-> {kw_activity, kw_screen}, template |-> "generate_activity_template"]>>

\* the places of TemplateOrder of which the lower-cased prompt holds a keyword
PromptMatches ==
    {i \in 1..Len(TemplateOrder) :
        \E k \in TemplateOrder[i].words : IsSubstring(k, lower(codeReq.prompt))}

\* C18: the fallback generator appends exactly one template to its header:
\* the one of the first keyword group, in the order button, color/theme, icon,
\* layout, activity/screen, of which the prompt holds a keyword, and the
\* generic template when it holds none, wherever the keywords stand.
C18_FirstKeywordInFixedOrder ==
    (codeReq.called /\ IsFallback(generated_code)) =>
        /\ Len(generated_code) = 5
        /\ generated_code[3] = Piece("original_request", codeReq.prompt)
        /\ generated_code[5].part =
               IF PromptMatches = {} THEN "generate_generic_template"
               ELSE TemplateOrder[Min(PromptMatches)].template

\* C18 witness: a prompt with layout before button got the button template.
C18_Witness ==
    /\ codeReq.called
    /\ codeReq.prompt = kw_layout \o <<" ">> \o w_Button \o <<" ">>
    /\ IsFallback(generated_code)
    /\ generated_code[5].part = "generate_button_template"

\* C19: generate_code_from_prompt always returns a text, and whenever the call
\* of the service raises, answers with a status other than 200, answers with no
\* candidate or answers with an empty generated text, the returned text is
\* the output of the fallback generator with its notice.
C19_FallbackOnEveryFailure ==
    codeReq.called =>
        /\ generated_code # <<>>
        /\ LET v == codeReq.service
           IN  (\/ v.post # "response"
                \/ v.status_code # 200
                \/ v.body \in {"no_candidates", "empty_candidates", "empty_text"})
                   => IsFallback(generated_code)

---------------------------------------------------------------------------
(* Properties of concurrent requests, checked under SpecThreads.           *)

\* the file after the rewrites of the given text sizes, one after the other
RECURSIVE After(_, _)
After(content, sizes) ==
    IF sizes = <<>> THEN content
    ELSE After(UpdateLayout(content, <<<<"text_size", Head(sizes)>>>>), Tail(sizes))

\* the complete contents the file goes through in some serial order of the
\* two requests
CompleteContents ==
    {After(Disk(prevTree), sizes) :
        sizes \in {<<>>} \cup {<<local[t].size_value>> : t \in Threads}
                 \cup {<<local[p[1]].size_value, local[p[2]].size_value>> :
                           p \in {q \in Threads \X Threads : q[1] # q[2]}}}

\* C14: a reader of a file that apply rewrites sees the complete content
\* from before a write or the complete content after it, never an empty or
\* partly written file; and when a write fails midway, no other request
\* having touched the file, the file keeps its previous complete content.
C14_ReaderSeesCompleteFile ==
    /\ current_content # <<>> => current_content[1] \in CompleteContents
    /\ \A t \in Threads :
           (pc[t] = "failed" /\ \A u \in Threads \ {t} : pc[u] = "start")
               => Disk(tree) = Disk(prevTree)

\* C15: at most one mutating request is in flight on the project at a time,
\* and once two concurrent requests are done the file equals the file after
\* some serial order of the two.
C15_RequestsSerialized ==
    /\ Cardinality({t \in Threads : pc[t] \in {"read", "opened"}}) <= 1
    /\ (\A t \in Threads : pc[t] = "done") =>
           \E t \in Threads : \E u \in Threads \ {t} :
               Disk(tree) = After(Disk(prevTree),
                                  <<local[t].size_value, local[u].size_value>>)

---------------------------------------------------------------------------
(* The connection rule, checked under SpecGen.                             *)

\* the lower-cased description holds "connected" somewhere else than inside
\* "disconnected"
SaysConnectedAlone ==
    LET d == lower(genReq.changes_description)
        n == Len(kw_connected)
    IN  \E i \in 1..(Len(d) - n + 1) :
            /\ SubSeq(d, i, i + n - 1) = kw_connected
            /\ ~(i > 3 /\ SubSeq(d, i - 3, i + n - 1) = kw_disconnected)

\* C21: for a description with a connection/status trigger and the modifier
\* "disconnected", and without the separate word "connected", the
\* modifications set the string connection_status to "Disconnected" and the
\* colour status_color to #dc3545; "Connected" and #28a745 are produced only
\* when the description holds the separate word "connected".
C21_DisconnectedIsRecognized ==
    (genReq.called /\ Matched("connection")) =>
        /\ (Says(kw_disconnected) /\ ~SaysConnectedAlone) =>
               /\ DictHas(lastMods.strings, "connection_status")
               /\ DictGet(lastMods.strings, "connection_status") = "Disconnected"
               /\ DictHas(lastMods.colors, "status_color")
               /\ DictGet(lastMods.colors, "status_color") = "#dc3545"
        /\ (/\ DictHas(lastMods.strings, "connection_status")
            /\ DictGet(lastMods.strings, "connection_status") = "Connected")
               => SaysConnectedAlone

---------------------------------------------------------------------------
(* Requests for a project the store does not hold, checked under SpecStore. *)

\* C22: a save, modify_gui, compile or sign request for a project the store
\* does not hold, such as one deleted earlier, is answered with not found,
\* and no write, compile or sign call is made on the collaborator and no
\* metadata is updated.
C22_UnknownProjectNotFound ==
    [][(/\ ~known
        /\ now' = now + 1
        /\ resp'.op \in {"save_resource", "modify_gui", "compile", "sign"})
           => /\ resp'.result = "not_found"
              /\ resp'.called = "none"
              /\ meta' = meta
              /\ tree' = tree
              /\ artifact' = artifact
              /\ signedApk' = signedApk]_vars

====
